---- MODULE Spec2Model ----
(***************************************************************************)
(* Model of the multi-query RAG pipeline of the knowledge-base app:        *)
(*   POST /api/query/ask  ->  AstraDBQueryService.queryAI                  *)
(*     -> generateAlternativeQuestions (expansion model call, JSON.parse)  *)
(*     -> AstraDBVectorStoreService.similaritySearchMultiple               *)
(*          (initialize, Promise.all over similaritySearch)                *)
(*     -> chain.invoke (answer model call)                                 *)
(* One action is one continuation of the JavaScript code between two I/O   *)
(* completions: the synchronous code and the promise jobs it triggers run  *)
(* to completion before the next I/O callback is delivered.                *)
(* Strings built by concatenation (error messages, the joined context) are *)
(* sequences of their pieces.                                              *)
(***************************************************************************)
EXTENDS Integers, Sequences, FiniteSets, TLC

VARIABLES
  vectorStore,    \* AstraDBVectorStoreService.vectorStore: "null" or "store"
  isInitialized,  \* AstraDBVectorStoreService.isInitialized
  pc,             \* position of the request being served
  question,       \* req.body.question of the request being served
  allQuestions,   \* queryAI: [question, ...alternativeQuestions]
  searches,       \* one similaritySearch promise per element of allQuestions
  join,           \* state of the Promise.all of similaritySearchMultiple
  relevantDocs,   \* queryAI: what similaritySearchMultiple returned
  chainArgs,      \* arguments of the chain.invoke calls made by the run
  answerReply,    \* how the chain.invoke call of the run settled
  outcome,        \* how the queryAI promise settled
  responses,      \* responses written to res by the route handler
  calls,          \* per-run call counters of the external services
  lastSettled,    \* history: position of the search that settled last
  via,            \* caller of the run: "route" (HTTP) or "direct" (CLI main)
  world,          \* the replies of deterministic external services
  prev,           \* history: how the previous queryAI promise settled
  runNo,          \* history: number of requests taken so far
  runs,           \* concurrent requests: the local state of each queryAI run
  stream,         \* streaming request: its position and the events written
  oracleArgs,   \* history: the path of the run and the k of each oracle call
  svc,          \* calls under way on the vector store service and what they did
  ingest,       \* the vector store handle of the ingestion routes
  job           \* the ingestion request or script run under way: its files and lists

vars == <<vectorStore, isInitialized, pc, question, allQuestions, searches,
          join, relevantDocs, chainArgs, answerReply, outcome, responses,
          calls, lastSettled, via, world, prev, runNo, runs, stream,
          oracleArgs,
          svc,
          ingest,
          job>>

\* variables that only the specifications of single claims change
aux == <<lastSettled, via, world, prev, runNo, runs, stream, oracleArgs, svc, ingest, job>>
\* the same without those a specification follows itself
auxButOrder == <<via, world, prev, runNo, runs, stream, oracleArgs, svc, ingest, job>>
auxButVia == <<lastSettled, world, prev, runNo, runs, stream, oracleArgs, svc, ingest, job>>
auxButDet == <<lastSettled, via, runs, stream, oracleArgs, svc, ingest, job>>
auxButRuns == <<lastSettled, via, world, prev, runNo, stream, oracleArgs, svc, ingest, job>>
auxButStream == <<lastSettled, via, world, prev, runNo, runs, oracleArgs, svc, ingest, job>>
auxButOracleArgs == <<lastSettled, via, world, prev, runNo, runs, stream, svc, ingest, job>>
auxButViaOracleArgs == <<lastSettled, world, prev, runNo, runs, stream, svc, ingest, job>>
auxButSvc == <<lastSettled, via, world, prev, runNo, runs, stream, oracleArgs, ingest, job>>
auxButIngest == <<lastSettled, via, world, prev, runNo, runs, stream, oracleArgs, svc, job>>
\* the local state of the single request of the other specifications
runVars == <<pc, question, allQuestions, searches, join, relevantDocs,
             chainArgs, answerReply, outcome, responses, calls>>

----------------------------------------------------------------------------
(* Bounds *)

\* number of distinct passages the index can hold
NumPassages == 2
\* most passages one oracle call returns in the model (never more than k)
MaxHits == 2
\* most passages the oracle returns to one run, over all its searches
MaxRetrieved == 2
\* longest array of paraphrases the expansion model returns in the model
MaxAltReturned == 4
\* largest Date.now() difference observed by a run
MaxElapsed == 1

(* Program constants *)
ALTERNATIVE_QUESTION_COUNT == 3
MAX_RELEVANT_DOCS_PER_QUESTION == 3
\* doc.pageContent.substring(0, 200)
SOURCE_PREVIEW_LENGTH == 200
\* async queryAI(question, k = 4), similaritySearchMultiple(queries, k = 4)
DEFAULT_K == 4

NO_INFO_ANSWER ==
  "I cannot find any relevant information in the knowledge base to answer your question."
NO_DOCUMENTS_MESSAGE ==
  "No documents have been stored in the collection yet. Please ingest some documents first."

----------------------------------------------------------------------------
(* Values *)

Min(a, b) == IF a < b THEN a ELSE b

\* JavaScript values a request body can carry in its question field
BodyQuestions ==
  { [t |-> "undefined", v |-> ""],
    [t |-> "null",      v |-> ""],
    [t |-> "string",    v |-> ""],
    [t |-> "string",    v |-> "q0"],
    [t |-> "number",    v |-> "0"],
    [t |-> "number",    v |-> "42"],
    [t |-> "object",    v |-> "{}"] }

\* !x of JavaScript, on the values above
Falsy(x) ==
  \/ x.t \in {"undefined", "null"}
  \/ x.t = "string" /\ x.v = ""
  \/ x.t = "number" /\ x.v = "0"

\* Passages of the index: Document {pageContent, metadata}
ContentNames == <<"c1", "c2", "c3", "c4">>
MetaNames == <<"m1", "m2", "m3", "m4">>
Passages ==
  { [pageContent |-> ContentNames[i], metadata |-> MetaNames[i]] :
      i \in 1..NumPassages }

\* sequences without repetition of at most n elements of S
RECURSIVE SeqsUpTo(_, _)
SeqsUpTo(S, n) ==
  IF n = 0 THEN { <<>> }
  ELSE LET shorter == SeqsUpTo(S, n - 1)
       IN  shorter \cup
           UNION { { Append(s, x) : x \in S \ { s[i] : i \in 1..Len(s) } } :
                   s \in shorter }

\* what vectorStore.similaritySearch(query, k) can resolve with
OracleResults(k) == SeqsUpTo(Passages, Min(k, MaxHits))

\* the results of the searches of queryAI, which pass k = 3
MultiQueryResults == OracleResults(MAX_RELEVANT_DOCS_PER_QUESTION)

\* failure messages of the external services
ModelErrors  == { "429 rate limit", "ECONNRESET" }
\* texts chain.invoke can resolve with
AnswerTexts  == { "the answer" }
OracleErrors == { "socket hang up" }

----------------------------------------------------------------------------
(* The expansion model's reply and JSON.parse *)

\* A reply text is a sequence of lexical tokens [t, v]:
\*   punct  one of [ ] { } ,      str   a string literal with value v
\*   lit    null, true or a number   word  anything that is not JSON
Tok(t, v) == [t |-> t, v |-> v]
LB == Tok("punct", "[")
RB == Tok("punct", "]")
LC == Tok("punct", "{")
RC == Tok("punct", "}")
COMMA == Tok("punct", ",")

\* the paraphrases the model writes
AltNames == <<"a1", "a2", "a3", "a4", "a5", "a6">>

\* the text  ["a1", "a2", ..., "an"]
RECURSIVE ArrayItems(_)
ArrayItems(n) ==
  IF n = 0 THEN <<>>
  ELSE IF n = 1 THEN << Tok("str", AltNames[1]) >>
  ELSE ArrayItems(n - 1) \o << COMMA, Tok("str", AltNames[n]) >>
ArrayText(n) == <<LB>> \o ArrayItems(n) \o <<RB>>

\* texts alternativeQuestionChain.invoke can resolve with
ExpansionTexts ==
  { ArrayText(n) : n \in 0..MaxAltReturned } \cup
  { << Tok("word", "json-fence") >> \o ArrayText(2) \o << Tok("word", "fence") >>,
    << Tok("word", "Sure"), Tok("word", "here") >>,
    << LB, Tok("str", "a1"), COMMA, RB >>,
    << LC, RC >>,
    << Tok("lit", "null") >>,
    << Tok("lit", "7") >>,
    << Tok("lit", "true") >>,
    << Tok("str", "hi") >>,
    << >> }

\* JavaScript values JSON.parse produces here
JsArray(items) == [kind |-> "array",   items |-> items, s |-> ""]
JsString(str)  == [kind |-> "string",  items |-> <<>>,  s |-> str]
JsOther(kind)  == [kind |-> kind,      items |-> <<>>,  s |-> ""]

\* tokens 2, 4, ... of  [ v , v , ... ]  are values, tokens 3, 5, ... commas
IsStringList(toks) ==
  /\ Len(toks) >= 3
  /\ Len(toks) % 2 = 1
  /\ toks[1] = LB
  /\ toks[Len(toks)] = RB
  /\ \A i \in 2..(Len(toks) - 1) :
       IF i % 2 = 0 THEN toks[i].t = "str" ELSE toks[i] = COMMA

\* JSON.parse(text): ok = FALSE is a SyntaxError
JSONParse(toks) ==
  IF toks = <<LB, RB>> THEN [ok |-> TRUE, value |-> JsArray(<<>>)]
  ELSE IF IsStringList(toks) THEN
    [ok |-> TRUE,
     value |-> JsArray([i \in 1..((Len(toks) - 1) \div 2) |-> toks[2 * i].v])]
  ELSE IF toks = <<LC, RC>> THEN [ok |-> TRUE, value |-> JsOther("object")]
  ELSE IF Len(toks) = 1 /\ toks[1].t = "str" THEN
    [ok |-> TRUE, value |-> JsString(toks[1].v)]
  ELSE IF Len(toks) = 1 /\ toks[1].t = "lit" THEN
    [ok |-> TRUE,
     value |-> JsOther(IF toks[1].v = "null" THEN "null"
                       ELSE IF toks[1].v = "true" THEN "boolean"
                       ELSE "number")]
  ELSE [ok |-> FALSE, value |-> JsOther("undefined")]

\* a reply of a model call: the promise resolves with a text or rejects
Resolved(text) == [settled |-> "resolved", text |-> text, message |-> ""]
Rejected(msg)  == [settled |-> "rejected", text |-> <<>>, message |-> msg]
ExpansionReplies ==
  { Resolved(t) : t \in ExpansionTexts } \cup { Rejected(m) : m \in ModelErrors }

\* generateAlternativeQuestions: the parsed reply as it is; [] when the call
\* rejects or JSON.parse throws
generateAlternativeQuestions(reply) ==
  IF reply.settled = "rejected" THEN JsArray(<<>>)
  ELSE LET parsed == JSONParse(reply.text)
       IN  IF parsed.ok THEN parsed.value ELSE JsArray(<<>>)

\* the characters of the strings the model handles
Chars(str) ==
  CASE str = "hi" -> <<"h", "i">>
    [] str = ""   -> <<>>
    [] OTHER      -> <<str>>

\* [question, ...alternativeQuestions]: arrays and strings are iterable,
\* spreading anything else throws a TypeError
SpreadQuestions(q, alt) ==
  IF alt.kind = "array" THEN [ok |-> TRUE, list |-> <<q>> \o alt.items, message |-> ""]
  ELSE IF alt.kind = "string" THEN
    [ok |-> TRUE, list |-> <<q>> \o Chars(alt.s), message |-> ""]
  ELSE [ok |-> FALSE, list |-> <<>>,
        message |-> "alternativeQuestions is not iterable"]

----------------------------------------------------------------------------
(* AstraDBVectorStoreService: similaritySearch, similaritySearchMultiple *)

\* a similaritySearch promise
PendingSearch       == [status |-> "pending",  docs |-> <<>>, message |-> <<>>]
ResolvedSearch(ds)  == [status |-> "resolved", docs |-> ds,   message |-> <<>>]
RejectedSearch(msg) == [status |-> "rejected", docs |-> <<>>, message |-> msg]

\* catch of similaritySearch: throw new Error(`Astra DB search failed: ...`)
SearchFailedError(msg) == <<"Astra DB search failed: ">> \o msg

\* similaritySearch once its await this.initialize() has returned: it throws
\* when vectorStore is null, otherwise the oracle call is issued
StartSearch(store) ==
  IF store = "null"
  THEN RejectedSearch(SearchFailedError(<<NO_DOCUMENTS_MESSAGE>>))
  ELSE PendingSearch

\* Promise.all replaced by a combinator that resolves with the first result
PromiseAll_Race(ss) ==
  IF \E i \in 1..Len(ss) : ss[i].status = "rejected" THEN "rejected"
  ELSE IF \E i \in 1..Len(ss) : ss[i].status = "resolved" THEN "resolved"
  ELSE "pending"

\* Promise.all: rejects as soon as one promise rejects, resolves when all
\* have resolved
PromiseAll(ss) ==
  IF \E i \in 1..Len(ss) : ss[i].status = "rejected" THEN "rejected"
  ELSE IF \A i \in 1..Len(ss) : ss[i].status = "resolved" THEN "resolved"
  ELSE "pending"

\* a flat() that puts the later lists first
RECURSIVE Flat_Reverse(_)
Flat_Reverse(lists) ==
  IF Len(lists) = 0 THEN <<>> ELSE Flat_Reverse(Tail(lists)) \o Head(lists)

\* results.flat()
RECURSIVE Flat(_)
Flat(lists) ==
  IF Len(lists) = 0 THEN <<>> ELSE Head(lists) \o Flat(Tail(lists))

\* similaritySearchMultiple with a catch that rethrows
SearchMultipleSettle_Rethrow(ss) ==
  IF PromiseAll(ss) = "resolved"
  THEN [ok |-> TRUE, docs |-> Flat([i \in 1..Len(ss) |-> ss[i].docs]),
        message |-> <<>>]
  ELSE [ok |-> FALSE, docs |-> <<>>,
        message |-> LET i == CHOOSE j \in 1..Len(ss) : ss[j].status = "rejected"
                    IN  ss[i].message]

\* what similaritySearchMultiple settles with once its Promise.all has
\* settled: the flattened results, or [] from its catch
SearchMultipleSettle(ss) ==
  IF PromiseAll(ss) = "resolved"
  THEN [ok |-> TRUE, docs |-> Flat([i \in 1..Len(ss) |-> ss[i].docs]),
        message |-> <<>>]
  ELSE [ok |-> TRUE, docs |-> <<>>, message |-> <<>>]

----------------------------------------------------------------------------
(* AstraDBQueryService.queryAI and the route POST /api/query/ask *)

\* the route's check without its typeof test
ValidQuestion_NoTypeof(q) == ~Falsy(q)

\* route: if (!question || typeof question !== "string") return 400
ValidQuestion(q) == ~(Falsy(q) \/ q.t # "string")

InvalidQuestionBody ==
  [error |-> "Invalid question",
   message |-> "Please provide a valid question string"]

\* queryAI's catch dropping the cause
QueryFailedError_NoCause(msg) == <<"Query failed: ">>

\* catch of queryAI: throw new Error(`Query failed: ${error.message}`)
QueryFailedError(msg) == <<"Query failed: ">> \o msg

\* route catch: the 500 body (details is undefined outside development)
QueryFailedBody(msg) ==
  [error |-> "Query processing failed", message |-> msg]

\* the empty check off by one
IsEmptyCandidates_OffByOne(docs) == Len(docs) <= 1

\* relevantDocs.length === 0
IsEmptyCandidates(docs) == Len(docs) = 0

\* the short-circuit result
NoInfoResult(elapsed) ==
  [answer |-> NO_INFO_ANSWER, sources |-> <<>>,
   processingTime |-> elapsed, documentsRetrieved |-> 0]

\* parts.join(sep)
RECURSIVE JoinWith(_, _)
JoinWith(parts, sep) ==
  IF Len(parts) = 0 THEN <<>>
  ELSE IF Len(parts) = 1 THEN <<parts[1]>>
  ELSE <<parts[1], sep>> \o JoinWith(Tail(parts), sep)

\* a context that leaves out the last passage
Context_DropLast(docs) ==
  JoinWith([i \in 1..(Len(docs) - 1) |-> docs[i].pageContent], "\n\n")

\* relevantDocs.map((doc) => doc.pageContent).join("\n\n")
Context(docs) == JoinWith([i \in 1..Len(docs) |-> docs[i].pageContent], "\n\n")

\* length in characters of each passage content: one of exactly
\* SOURCE_PREVIEW_LENGTH characters, one a character longer, a short one and
\* a long one
ContentLength(c) ==
  CASE c = "c1" -> SOURCE_PREVIEW_LENGTH
    [] c = "c2" -> SOURCE_PREVIEW_LENGTH + 1
    [] c = "c3" -> 5
    [] OTHER    -> 450

\* a piece of text: the first len characters of the string named of
Piece(of, len) == [of |-> of, len |-> len]

\* the whole string c
Whole(c) == Piece(c, ContentLength(c))

\* c.substring(0, to): the string itself when it has at most to characters
Substring(c, to) == Piece(c, Min(ContentLength(c), to))

\* the literal "..."
Ellipsis == Piece("...", 3)

\* one element of sources: substring(0, 200) + "..." for every passage
Source(doc) ==
  [content |-> <<Substring(doc.pageContent, SOURCE_PREVIEW_LENGTH), Ellipsis>>,
   metadata |-> doc.metadata]

\* a result whose sources are in the opposite order
AnswerResult_Reversed(q, response, elapsed, docs) ==
  [question |-> q, answer |-> response, processingTime |-> elapsed,
   documentsRetrieved |-> Len(docs),
   sources |-> [i \in 1..Len(docs) |-> Source(docs[Len(docs) + 1 - i])]]

\* the result of the normal path
AnswerResult(q, response, elapsed, docs) ==
  [question |-> q, answer |-> response, processingTime |-> elapsed,
   documentsRetrieved |-> Len(docs),
   sources |-> [i \in 1..Len(docs) |-> Source(docs[i])]]

NoCalls == [queryAI |-> 0, expansion |-> 0, oracle |-> <<>>, answer |-> 0]
NoOutcome == [settled |-> "none"]
\* how a chain.invoke call settled: its text output or its failure message
NoReply == [settled |-> "none", text |-> "", message |-> ""]
AnswerReplied(text) == [settled |-> "resolved", text |-> text, message |-> ""]
AnswerFailed(msg) == [settled |-> "rejected", text |-> "", message |-> msg]

----------------------------------------------------------------------------
(* Actions *)

\* calls that can be under way on one service instance at a time
MaxOps == 2

\* no call under way
IdleOp == [op |-> "none", at |-> "none", afterStore |-> FALSE]

\* a service instance nothing has been called on
IdleService ==
  [stored |-> FALSE, attempts |-> 0, ops |-> [j \in 1..MaxOps |-> IdleOp],
   last |-> [op |-> "none", result |-> "none", afterStore |-> FALSE]]

\* the ingestion routes' own AstraDBVectorStoreService, nothing stored yet;
\* emptyBefore and before are history: the query handle was initialised
\* without a store when the documents were stored, and the request being
\* served arrived after they were stored
NoIngest ==
  [vectorStore |-> "null", emptyBefore |-> FALSE, before |-> FALSE]

\* no ingestion under way
NoJob ==
  [kind |-> "none", files |-> <<>>, i |-> 0, at |-> "done",
   successful |-> <<>>, failed |-> <<>>, removes |-> <<>>, removed |-> {},
   writes |-> <<>>, response |-> "none"]

\* no oracle call yet
NoOracleArgs == [variant |-> "none", kArg |-> [t |-> "undefined", v |-> 0], k |-> <<>>]

\* no streaming request yet
IdleStream == [pc |-> "idle", events |-> <<>>, failure |-> ""]

InitRun ==
  /\ vectorStore = "null"
  /\ isInitialized = FALSE
  /\ pc = "idle"
  /\ question = [t |-> "undefined", v |-> ""]
  /\ allQuestions = <<>>
  /\ searches = <<>>
  /\ join = "none"
  /\ relevantDocs = <<>>
  /\ chainArgs = <<>>
  /\ answerReply = NoReply
  /\ outcome = NoOutcome
  /\ responses = <<>>
  /\ calls = NoCalls
  /\ lastSettled = 0
  /\ via = "route"
  /\ prev = NoOutcome
  /\ runNo = 0
  /\ stream = IdleStream
  /\ oracleArgs = NoOracleArgs
  /\ svc = IdleService
  /\ ingest = NoIngest
  /\ job = NoJob

\* the external services are free to reply anything
NoWorld == [chosen |-> FALSE]

Init == InitRun /\ world = NoWorld /\ runs = <<>>

\* res.status(status).json(body): the handler is finished.  A run that
\* main() started directly has no route handler around it: it only ends.
Respond(status, body) ==
  /\ responses' = IF via = "route"
                  THEN Append(responses, [status |-> status, body |-> body])
                  ELSE responses
  /\ pc' = "done"

\* queryAI returns result; the route answers 200 with it
QueryResolves(result) ==
  /\ outcome' = [settled |-> "resolved", value |-> result]
  /\ Respond(200, result)

\* queryAI's catch rethrows; the route's catch answers 500
QueryRejects(msg) ==
  /\ outcome' = [settled |-> "rejected", message |-> QueryFailedError(msg)]
  /\ Respond(500, QueryFailedBody(QueryFailedError(msg)))

\* queryAI from the return of similaritySearchMultiple to its next await or
\* return: the empty check, the context and the chain.invoke call
AfterRetrieval(r, c, elapsed) ==
  IF ~r.ok THEN
    /\ QueryRejects(r.message)
    /\ calls' = c
    /\ UNCHANGED <<relevantDocs, chainArgs>>
  ELSE
    /\ relevantDocs' = r.docs
    /\ IF IsEmptyCandidates(r.docs) THEN
         /\ QueryResolves(NoInfoResult(elapsed))
         /\ calls' = c
         /\ UNCHANGED chainArgs
       ELSE
         /\ pc' = "generating"
         /\ chainArgs' = Append(chainArgs, [context |-> Context(r.docs),
                                            question |-> question.v])
         /\ calls' = [c EXCEPT !.answer = @ + 1]
         /\ UNCHANGED <<outcome, responses>>

\* similaritySearchMultiple once initialize has returned: one
\* similaritySearch per question, each running up to its oracle call, and
\* the Promise.all over them.  isInitialized is true by now, so the inner
\* await this.initialize() of each search returns at once and the searches
\* reach the vectorStore test as promise jobs, before any I/O completes.
FanOut(qs, store, elapsed) ==
  LET ss == [i \in 1..Len(qs) |-> StartSearch(store)]
      c  == [calls EXCEPT !.oracle =
               [i \in 1..Len(qs) |-> IF ss[i].status = "pending" THEN 1 ELSE 0]]
  IN  /\ searches' = ss
      /\ join' = PromiseAll(ss)
      /\ IF PromiseAll(ss) = "pending" THEN
           /\ pc' = "retrieving"
           /\ calls' = c
           /\ UNCHANGED <<relevantDocs, chainArgs, outcome, responses>>
         ELSE AfterRetrieval(SearchMultipleSettle(ss), c, elapsed)

\* no similaritySearch of the previous run is still in flight
Drained == \A i \in 1..Len(searches) : searches[i].status # "pending"

\* POST /api/query/ask: validation, then queryAI up to the expansion call.
\* This specification serves one request at a time: the next one is taken
\* when the handler has answered and the searches it left in flight (after
\* an early rejection of the Promise.all) have settled.
Ask(q) ==
  /\ pc \in {"idle", "done"}
  /\ Drained
  /\ question' = q
  /\ allQuestions' = <<>>
  /\ searches' = <<>>
  /\ join' = "none"
  /\ relevantDocs' = <<>>
  /\ chainArgs' = <<>>
  /\ answerReply' = NoReply
  /\ outcome' = NoOutcome
  /\ IF ~ValidQuestion(q) THEN
       /\ responses' = <<[status |-> 400, body |-> InvalidQuestionBody]>>
       /\ pc' = "done"
       /\ calls' = NoCalls
     ELSE
       /\ responses' = <<>>
       /\ pc' = "expanding"
       /\ calls' = [NoCalls EXCEPT !.queryAI = 1, !.expansion = 1]
  /\ UNCHANGED <<vectorStore, isInitialized>>

\* the expansion call settles: generateAlternativeQuestions returns, queryAI
\* builds allQuestions and enters similaritySearchMultiple, whose initialize
\* either returns at once or starts the connection attempt
ExpansionSettle(reply) ==
  /\ pc = "expanding"
  /\ LET sp == SpreadQuestions(question.v, generateAlternativeQuestions(reply))
     IN  IF ~sp.ok THEN
           /\ QueryRejects(<<sp.message>>)
           /\ UNCHANGED <<allQuestions, searches, join, relevantDocs,
                          chainArgs, calls>>
         ELSE
           /\ allQuestions' = sp.list
           /\ IF isInitialized THEN
                \E elapsed \in 0..MaxElapsed : FanOut(sp.list, vectorStore, elapsed)
              ELSE
                /\ pc' = "connecting"
                /\ UNCHANGED <<searches, join, relevantDocs, chainArgs,
                               outcome, responses, calls>>
  /\ UNCHANGED <<vectorStore, isInitialized, question, answerReply>>

ExpansionResolve == \E t \in ExpansionTexts : ExpansionSettle(Resolved(t))
ExpansionReject  == \E m \in ModelErrors : ExpansionSettle(Rejected(m))

\* an initialize that uses the store it connected to without keeping it
ConnectSettle_NotKept(store) ==
  /\ pc = "connecting"
  /\ vectorStore' = "null"
  /\ isInitialized' = TRUE
  /\ \E elapsed \in 0..MaxElapsed : FanOut(allQuestions, store, elapsed)
  /\ UNCHANGED <<question, allQuestions, answerReply>>

\* initialize: AstraDBVectorStore.fromExistingIndex settles
ConnectSettle(store) ==
  /\ pc = "connecting"
  /\ vectorStore' = store
  /\ isInitialized' = TRUE
  /\ \E elapsed \in 0..MaxElapsed : FanOut(allQuestions, store, elapsed)
  /\ UNCHANGED <<question, allQuestions, answerReply>>

ConnectResolve == ConnectSettle("store")
ConnectReject  == ConnectSettle("null")

\* the oracle call of search i settles; if that settles the Promise.all,
\* similaritySearchMultiple returns and queryAI goes on
SearchSettle(i, s) ==
  /\ i \in 1..Len(searches)
  /\ searches[i].status = "pending"
  /\ LET ss == [searches EXCEPT ![i] = s]
     IN  /\ searches' = ss
         /\ IF join = "pending" THEN
              /\ join' = PromiseAll(ss)
              /\ IF PromiseAll(ss) = "pending" THEN
                   UNCHANGED <<pc, relevantDocs, chainArgs, outcome,
                               responses, calls>>
                 ELSE \E elapsed \in 0..MaxElapsed :
                        AfterRetrieval(SearchMultipleSettle(ss), calls, elapsed)
            ELSE UNCHANGED <<join, pc, relevantDocs, chainArgs, outcome,
                             responses, calls>>
  /\ UNCHANGED <<vectorStore, isInitialized, question, allQuestions,
                 answerReply>>

\* number of passages the searches of the run have returned so far
Retrieved == Len(Flat([i \in 1..Len(searches) |-> searches[i].docs]))

SearchResolve ==
  \E i \in 1..Len(searches) :
    \E ds \in MultiQueryResults :
      /\ Retrieved + Len(ds) <= MaxRetrieved
      /\ SearchSettle(i, ResolvedSearch(ds))

SearchReject ==
  \E i \in 1..Len(searches) : \E m \in OracleErrors :
    SearchSettle(i, RejectedSearch(SearchFailedError(<<m>>)))

\* chain.invoke resolves with text: sources, the result, 200
AnswerResolveWith(text) ==
  /\ pc = "generating"
  /\ answerReply' = AnswerReplied(text)
  /\ \E elapsed \in 0..MaxElapsed :
       QueryResolves(AnswerResult(question.v, text, elapsed, relevantDocs))
  /\ UNCHANGED <<vectorStore, isInitialized, question, allQuestions,
                 searches, join, relevantDocs, chainArgs, calls>>

AnswerResolve == \E text \in AnswerTexts : AnswerResolveWith(text)

\* a handler that calls chain.invoke again after a failure
AnswerRejectWith_Retry(m) ==
  /\ pc = "generating"
  /\ calls.answer < 2
  /\ answerReply' = AnswerFailed(m)
  /\ chainArgs' = Append(chainArgs, chainArgs[1])
  /\ calls' = [calls EXCEPT !.answer = @ + 1]
  /\ UNCHANGED <<vectorStore, isInitialized, pc, question, allQuestions,
                 searches, join, relevantDocs, outcome, responses>>

\* chain.invoke rejects with message m: queryAI rejects, 500
AnswerRejectWith(m) ==
  /\ pc = "generating"
  /\ answerReply' = AnswerFailed(m)
  /\ QueryRejects(<<m>>)
  /\ UNCHANGED <<vectorStore, isInitialized, question, allQuestions,
                 searches, join, relevantDocs, chainArgs, calls>>

AnswerReject == \E m \in ModelErrors : AnswerRejectWith(m)

Next ==
  \/ (\E q \in BodyQuestions : Ask(q)) /\ UNCHANGED aux
  \/ ExpansionResolve /\ UNCHANGED aux
  \/ ExpansionReject /\ UNCHANGED aux
  \/ ConnectResolve /\ UNCHANGED aux
  \/ ConnectReject /\ UNCHANGED aux
  \/ SearchResolve /\ UNCHANGED aux
  \/ SearchReject /\ UNCHANGED aux
  \/ AnswerResolve /\ UNCHANGED aux
  \/ AnswerReject /\ UNCHANGED aux

Spec == Init /\ [][Next]_vars

----------------------------------------------------------------------------
(* The same request handler with the completion order of the searches      *)
(* recorded: lastSettled is the position of the search whose oracle call   *)
(* completed last.                                                         *)

\* position of the search that the step settles
SettledIndex == CHOOSE i \in 1..Len(searches) : searches'[i] # searches[i]

NextOrder ==
  \/ Ask([t |-> "string", v |-> "q0"]) /\ lastSettled' = 0 /\ UNCHANGED auxButOrder
  \/ (\E n \in 0..ALTERNATIVE_QUESTION_COUNT :
        ExpansionSettle(Resolved(ArrayText(n)))) /\ UNCHANGED aux
  \/ ConnectResolve /\ UNCHANGED aux
  \/ SearchResolve /\ lastSettled' = SettledIndex /\ UNCHANGED auxButOrder
  \/ SearchReject /\ lastSettled' = SettledIndex /\ UNCHANGED auxButOrder
  \/ AnswerResolve /\ UNCHANGED aux

SpecOrder == Init /\ [][NextOrder]_vars

----------------------------------------------------------------------------
(* queryAI called directly, as main() of AstraDBQueryService.js does, with *)
(* any JavaScript value as the question.                                   *)

\* queryService.queryAI(q): queryAI from its entry up to the expansion call
Call(q) ==
  /\ pc \in {"idle", "done"}
  /\ Drained
  /\ via' = "direct"
  /\ question' = q
  /\ allQuestions' = <<>>
  /\ searches' = <<>>
  /\ join' = "none"
  /\ relevantDocs' = <<>>
  /\ chainArgs' = <<>>
  /\ answerReply' = NoReply
  /\ outcome' = NoOutcome
  /\ responses' = <<>>
  /\ pc' = "expanding"
  /\ calls' = [NoCalls EXCEPT !.queryAI = 1, !.expansion = 1]
  /\ UNCHANGED <<vectorStore, isInitialized, auxButVia>>

NextDirect ==
  \/ \E q \in BodyQuestions : Call(q)
  \/ (\E n \in 0..1 : ExpansionSettle(Resolved(ArrayText(n)))) /\ UNCHANGED aux
  \/ ExpansionReject /\ UNCHANGED aux
  \/ ConnectResolve /\ UNCHANGED aux
  \/ ConnectReject /\ UNCHANGED aux
  \/ SearchResolve /\ UNCHANGED aux
  \/ SearchReject /\ UNCHANGED aux
  \/ AnswerResolve /\ UNCHANGED aux
  \/ AnswerReject /\ UNCHANGED aux

SpecDirect == Init /\ [][NextDirect]_vars

----------------------------------------------------------------------------
(* The k of the oracle calls.  The multi-query queryAI passes               *)
(* MAX_RELEVANT_DOCS_PER_QUESTION to similaritySearchMultiple; the          *)
(* single-query queryAI(question, k = 4) of the same file passes its own k *)
(* to one similaritySearch.  The oracle returns at most k passages of an    *)
(* index of four, best first.                                              *)

\* the passages of the index in the oracle's order
Ranking ==
  [i \in 1..DEFAULT_K |-> [pageContent |-> ContentNames[i], metadata |-> MetaNames[i]]]

\* what vectorStore.similaritySearch(query, k) can resolve with
OracleTop(k) == { SubSeq(Ranking, 1, n) : n \in 0..Min(k, Len(Ranking)) }

\* a parameter with a default value: the default replaces undefined only
DefaultParam(arg, d) == IF arg.t = "undefined" THEN d ELSE arg.v

\* the k values a caller of the single-query queryAI passes
KArgs ==
  { [t |-> "undefined", v |-> 0] } \cup { [t |-> "number", v |-> n] : n \in {1, 2, 5} }

\* a call of similaritySearchMultiple that leaves k to its default
MultiQueryK_Default == DEFAULT_K

\* queryAI: similaritySearchMultiple(allQuestions, MAX_RELEVANT_DOCS_PER_QUESTION)
MultiQueryK == MAX_RELEVANT_DOCS_PER_QUESTION

\* the k of the oracle call of each search (0: the search made no call)
OracleK(ss, k) == [i \in 1..Len(ss) |-> IF ss[i].status = "pending" THEN k ELSE 0]

\* the searches have just been started with limit k
Started(k) == oracleArgs' = [oracleArgs EXCEPT !.k = OracleK(searches', k)]

\* single-query queryAI(question, kArg) from its entry to the first await
\* that waits for I/O: similaritySearch(question, k) and its initialize
SingleAsk(q, kArg) ==
  /\ pc \in {"idle", "done"}
  /\ Drained
  /\ via' = "direct"
  /\ question' = q
  /\ allQuestions' = <<q.v>>
  /\ relevantDocs' = <<>>
  /\ chainArgs' = <<>>
  /\ answerReply' = NoReply
  /\ responses' = <<>>
  /\ LET k == DefaultParam(kArg, DEFAULT_K)
         s == StartSearch(vectorStore)
     IN  IF ~isInitialized THEN
           /\ pc' = "connecting"
           /\ searches' = <<>>
           /\ join' = "none"
           /\ outcome' = NoOutcome
           /\ calls' = [NoCalls EXCEPT !.queryAI = 1]
           /\ oracleArgs' = [variant |-> "single", kArg |-> kArg, k |-> <<>>]
         ELSE
           /\ searches' = <<s>>
           /\ oracleArgs' = [variant |-> "single", kArg |-> kArg,
                             k |-> OracleK(<<s>>, k)]
           /\ IF s.status = "pending" THEN
                /\ pc' = "retrieving"
                /\ join' = "pending"
                /\ outcome' = NoOutcome
                /\ calls' = [NoCalls EXCEPT !.queryAI = 1, !.oracle = <<1>>]
              ELSE
                /\ pc' = "done"
                /\ join' = "rejected"
                /\ outcome' = [settled |-> "rejected",
                               message |-> QueryFailedError(s.message)]
                /\ calls' = [NoCalls EXCEPT !.queryAI = 1, !.oracle = <<0>>]
  /\ UNCHANGED <<vectorStore, isInitialized, auxButViaOracleArgs>>

\* initialize of the single-query path: the connection attempt settles and
\* similaritySearch goes on to the vectorStore test and the oracle call
SingleConnectSettle(store) ==
  /\ pc = "connecting"
  /\ oracleArgs.variant = "single"
  /\ vectorStore' = store
  /\ isInitialized' = TRUE
  /\ LET s == StartSearch(store)
     IN  /\ searches' = <<s>>
         /\ oracleArgs' = [oracleArgs EXCEPT
              !.k = OracleK(<<s>>, DefaultParam(oracleArgs.kArg, DEFAULT_K))]
         /\ IF s.status = "pending" THEN
              /\ pc' = "retrieving"
              /\ join' = "pending"
              /\ calls' = [calls EXCEPT !.oracle = <<1>>]
              /\ UNCHANGED <<outcome, responses>>
            ELSE
              /\ join' = "rejected"
              /\ calls' = [calls EXCEPT !.oracle = <<0>>]
              /\ QueryRejects(s.message)
  /\ UNCHANGED <<question, allQuestions, relevantDocs, chainArgs, answerReply,
                 auxButOracleArgs>>

\* the oracle call of the single-query path fails: similaritySearch rethrows
\* and queryAI rejects
SingleSearchReject(m) ==
  /\ pc = "retrieving"
  /\ oracleArgs.variant = "single"
  /\ searches' = <<RejectedSearch(SearchFailedError(<<m>>))>>
  /\ join' = "rejected"
  /\ QueryRejects(SearchFailedError(<<m>>))
  /\ UNCHANGED <<vectorStore, isInitialized, question, allQuestions,
                 relevantDocs, chainArgs, answerReply, calls, aux>>

NextLimit ==
  \/ /\ Ask([t |-> "string", v |-> "q0"])
     /\ oracleArgs' = [NoOracleArgs EXCEPT !.variant = "multi"]
     /\ UNCHANGED auxButOracleArgs
  \/ /\ oracleArgs.variant = "multi"
     /\ \E n \in 0..1 : ExpansionSettle(Resolved(ArrayText(n)))
     /\ Started(MultiQueryK)
     /\ UNCHANGED auxButOracleArgs
  \/ /\ oracleArgs.variant = "multi"
     /\ \E store \in {"store", "null"} : ConnectSettle(store)
     /\ Started(MultiQueryK)
     /\ UNCHANGED auxButOracleArgs
  \/ (\E i \in 1..Len(searches) : \E ds \in OracleTop(oracleArgs.k[i]) :
        SearchSettle(i, ResolvedSearch(ds))) /\ UNCHANGED aux
  \/ oracleArgs.variant = "multi" /\ SearchReject /\ UNCHANGED aux
  \/ \E kArg \in KArgs : SingleAsk([t |-> "string", v |-> "q0"], kArg)
  \/ \E store \in {"store", "null"} : SingleConnectSettle(store)
  \/ \E m \in OracleErrors : SingleSearchReject(m)
  \/ AnswerResolve /\ UNCHANGED aux
  \/ AnswerReject /\ UNCHANGED aux

SpecLimit == Init /\ [][NextLimit]_vars

----------------------------------------------------------------------------
(* The methods of one AstraDBVectorStoreService instance, called in any     *)
(* order and overlapping: svc.ops holds the calls under way, each waiting   *)
(* for the connection attempt of its initialize ("connect"), for the oracle *)
(* ("oracle") or for fromDocuments ("store").                               *)

ServiceOps ==
  {"initialize", "similaritySearch", "getStats", "testConnection", "storeChunks"}

\* call j returns or throws: result is recorded and the slot is free again
Finish(sv, j, result) ==
  [sv EXCEPT !.ops[j] = IdleOp,
             !.last = [op |-> sv.ops[j].op, result |-> result,
                       afterStore |-> sv.ops[j].afterStore]]

\* call j from the return of its await this.initialize() on, store being
\* this.vectorStore at that moment
AfterInitialize(sv, j, store) ==
  LET o == sv.ops[j].op
  IN  IF o = "initialize" THEN Finish(sv, j, "returned")
      ELSE IF store = "null" THEN
        Finish(sv, j, CASE o = "similaritySearch" -> NO_DOCUMENTS_MESSAGE
                        [] o = "getStats" -> "No documents stored yet"
                        [] OTHER -> "true")
      ELSE [sv EXCEPT !.ops[j].at = "oracle"]

\* a method is called: storeChunks up to fromDocuments, the others up to the
\* connection attempt of initialize, or past initialize when it returns at once
SvcBegin(j, o, chunks) ==
  /\ svc.ops[j] = IdleOp
  /\ LET sv == [svc EXCEPT !.ops[j] = [op |-> o, at |-> "entry",
                                       afterStore |-> svc.stored]]
     IN  IF o = "storeChunks" THEN
           svc' = IF chunks = 0
                  THEN Finish(sv, j, "Failed to store chunks in Astra DB: No chunks provided for storage")
                  ELSE [sv EXCEPT !.ops[j].at = "store"]
         ELSE IF isInitialized THEN svc' = AfterInitialize(sv, j, vectorStore)
         ELSE svc' = [sv EXCEPT !.ops[j].at = "connect", !.attempts = @ + 1]
  /\ UNCHANGED <<vectorStore, isInitialized>>

\* fromExistingIndex of call j settles: initialize writes vectorStore and
\* isInitialized, whatever is there
SvcConnectSettle(j, store) ==
  /\ svc.ops[j].at = "connect"
  /\ vectorStore' = store
  /\ isInitialized' = TRUE
  /\ svc' = AfterInitialize(svc, j, store)

\* the oracle call of call j settles
SvcOracleSettle(j, ok) ==
  /\ svc.ops[j].at = "oracle"
  /\ LET o == svc.ops[j].op
     IN  svc' = Finish(svc, j,
                  CASE o = "similaritySearch" ->
                         IF ok THEN "results" ELSE "Astra DB search failed"
                    [] o = "getStats" -> IF ok THEN "Active" ELSE "error"
                    [] OTHER -> IF ok THEN "true" ELSE "false")
  /\ UNCHANGED <<vectorStore, isInitialized>>

\* fromDocuments of call j settles: on success storeChunks keeps the store
SvcStoreSettle(j, ok) ==
  /\ svc.ops[j].at = "store"
  /\ IF ok THEN
       /\ vectorStore' = "store"
       /\ svc' = [Finish(svc, j, "stored") EXCEPT !.stored = TRUE]
     ELSE
       /\ svc' = Finish(svc, j, "Failed to store chunks in Astra DB")
       /\ UNCHANGED vectorStore
  /\ UNCHANGED isInitialized

SvcRest == UNCHANGED <<runVars, auxButSvc>>

NextStore ==
  \/ (\E j \in 1..MaxOps : \E o \in ServiceOps : \E chunks \in 0..1 :
        SvcBegin(j, o, chunks)) /\ SvcRest
  \/ (\E j \in 1..MaxOps : \E store \in {"store", "null"} :
        SvcConnectSettle(j, store)) /\ SvcRest
  \/ (\E j \in 1..MaxOps : \E ok \in BOOLEAN : SvcOracleSettle(j, ok)) /\ SvcRest
  \/ (\E j \in 1..MaxOps : \E ok \in BOOLEAN : SvcStoreSettle(j, ok)) /\ SvcRest

SpecStore == Init /\ [][NextStore]_vars

----------------------------------------------------------------------------
(* Queries and ingestion in one process.  The ingestion routes store        *)
(* through their own service instance (vectorStoreService of                *)
(* routes/query.js); queries search through the instance that               *)
(* AstraDBQueryService created for itself (vectorStore, isInitialized).     *)
(* The oracle has a match for every query and does not fail.                *)

\* POST /api/ingestion/upload: storeChunks succeeds on the ingestion handle
IngestStores ==
  /\ ingest.vectorStore = "null"
  /\ ingest' = [ingest EXCEPT !.vectorStore = "store",
                              !.emptyBefore = isInitialized /\ vectorStore = "null"]
  /\ UNCHANGED <<vectorStore, isInitialized, runVars, auxButIngest>>

NextIngest ==
  \/ /\ Ask([t |-> "string", v |-> "q0"])
     /\ ingest' = [ingest EXCEPT !.before = ingest.vectorStore = "store"]
     /\ UNCHANGED auxButIngest
  \/ (\E n \in 0..2 : ExpansionSettle(Resolved(ArrayText(n)))) /\ UNCHANGED aux
  \/ ConnectResolve /\ UNCHANGED aux
  \/ ConnectReject /\ UNCHANGED aux
  \/ (\E i \in 1..Len(searches) : \E p \in Passages :
        SearchSettle(i, ResolvedSearch(<<p>>))) /\ UNCHANGED aux
  \/ AnswerResolve /\ UNCHANGED aux
  \/ IngestStores

SpecIngest == Init /\ [][NextIngest]_vars

----------------------------------------------------------------------------
(* Ingestion: POST /api/ingestion/upload and /batch (routes/query.js, the   *)
(* Astra DB and the Chroma handlers have the same steps) and the script     *)
(* ingest.js (processSingleDocument, processDirectory).  job.files are the  *)
(* files of the request or run, job.i the file being handled, job.at the    *)
(* await it is waiting on; successful, failed, removes and writes hold      *)
(* positions in job.files: the two lists of the handler, the fs.remove      *)
(* calls made and the fromDocuments calls made; removed holds the files     *)
(* whose removal succeeded.                                                 *)

\* files of one request or directory
MaxFiles == 2

\* const maxSize = 10 * 1024 * 1024
MAX_FILE_SIZE == 10 * 1024 * 1024

SupportedExtensions == {".pdf", ".docx", ".txt", ".md"}

\* files multer has accepted and written to the upload directory
RouteFiles ==
  { [name |-> "notes.txt", exists |-> TRUE, size |-> 5,
     ext |-> ".txt", text |-> "text"],
    [name |-> "scan.pdf", exists |-> TRUE, size |-> 5,
     ext |-> ".pdf", text |-> ""] }

\* files the script can be given: also one of exactly 10MB, one over 10MB,
\* one that is gone, one of an unsupported type
ScriptFiles ==
  RouteFiles \cup
  { [name |-> "ten.pdf", exists |-> TRUE, size |-> MAX_FILE_SIZE,
     ext |-> ".pdf", text |-> "text"],
    [name |-> "big.pdf", exists |-> TRUE, size |-> MAX_FILE_SIZE + 1,
     ext |-> ".pdf", text |-> "text"],
    [name |-> "gone.md", exists |-> FALSE, size |-> 0,
     ext |-> ".md", text |-> "text"],
    [name |-> "tool.exe", exists |-> TRUE, size |-> 5,
     ext |-> ".exe", text |-> "text"] }

\* sequences of at most n elements of S
RECURSIVE ListsUpTo(_, _)
ListsUpTo(S, n) ==
  IF n = 0 THEN { <<>> }
  ELSE LET shorter == ListsUpTo(S, n - 1)
       IN  shorter \cup { Append(l, x) : l \in shorter, x \in S }

\* files.filter(file => supportedExtensions.includes(ext))
RECURSIVE FilterSupported(_)
FilterSupported(files) ==
  IF Len(files) = 0 THEN <<>>
  ELSE IF Head(files).ext \in SupportedExtensions
       THEN <<Head(files)>> \o FilterSupported(Tail(files))
       ELSE FilterSupported(Tail(files))

\* a validateDocument without the size test
ValidDocument_NoSize(f) == f.exists /\ f.ext \in SupportedExtensions

\* validateDocument: the file exists, has at most 10MB and a supported type
ValidDocument(f) ==
  /\ f.exists
  /\ ~(f.size > MAX_FILE_SIZE)
  /\ f.ext \in SupportedExtensions

\* if (!text || text.trim().length === 0) throw
HasReadableText(f) == f.text # ""

\* the loop goes to the next file, whose handling starts with processDocument
\* in the routes and with validateDocument in the script, or the handler
\* answers after the last
JobAdvance(j) ==
  IF j.i < Len(j.files)
  THEN [j EXCEPT !.i = @ + 1,
                 !.at = IF j.kind \in {"upload", "batch"} THEN "process"
                        ELSE "validate"]
  ELSE [j EXCEPT !.at = "done", !.response = "success"]

\* an await of the try block rejects: the catch of the handler or loop
JobFail(j) ==
  LET f == [j EXCEPT !.failed = Append(@, j.i)]
  IN  IF j.kind \in {"upload", "batch"}
      THEN [f EXCEPT !.at = "cleanup", !.removes = Append(@, j.i)]
      ELSE IF j.kind = "single"
      THEN [f EXCEPT !.at = "done", !.response = "failed"]
      ELSE JobAdvance(f)

StartJob(kind, files) ==
  job' = [NoJob EXCEPT !.kind = kind, !.files = files, !.i = 1,
                       !.at = IF kind \in {"upload", "batch"} THEN "process"
                              ELSE "validate"]

\* POST /upload: no file is a validation error
RouteUpload(files) ==
  /\ job.at = "done"
  /\ IF Len(files) = 0
     THEN job' = [NoJob EXCEPT !.kind = "upload", !.response = "invalid"]
     ELSE StartJob("upload", files)

\* POST /batch: no files is a validation error
RouteBatch(files) ==
  /\ job.at = "done"
  /\ IF Len(files) = 0
     THEN job' = [NoJob EXCEPT !.kind = "batch", !.response = "invalid"]
     ELSE StartJob("batch", files)

\* ingest.js file <path>
ScriptSingle(f) == job.at = "done" /\ StartJob("single", <<f>>)

\* ingest.js directory <path>: the supported files of the listing
ScriptDirectory(listing) ==
  /\ job.at = "done"
  /\ LET documentFiles == FilterSupported(listing)
     IN  IF Len(documentFiles) = 0
         THEN job' = [NoJob EXCEPT !.kind = "directory"]
         ELSE StartJob("directory", documentFiles)

\* validateDocument settles
ValidateSettle ==
  /\ job.at = "validate"
  /\ job' = IF ValidDocument(job.files[job.i])
            THEN [job EXCEPT !.at = "process"]
            ELSE JobFail(job)

\* processDocument settles; when it resolves storeChunks is called, which
\* calls fromDocuments
ProcessSettle(readable) ==
  /\ job.at = "process"
  /\ job' = IF readable /\ HasReadableText(job.files[job.i])
            THEN [job EXCEPT !.at = "store", !.writes = Append(@, job.i)]
            ELSE JobFail(job)

\* storeChunks settles
StoreSettle(ok) ==
  /\ job.at = "store"
  /\ job' = IF ~ok THEN JobFail(job)
            ELSE LET done == [job EXCEPT !.successful = Append(@, job.i)]
                 IN  IF job.kind \in {"upload", "batch"}
                     THEN [done EXCEPT !.at = "remove", !.removes = Append(@, job.i)]
                     ELSE JobAdvance(done)

\* a removal whose failure is not looked at
RemoveSettle_Swallow(ok) ==
  /\ job.at = "remove"
  /\ job' = JobAdvance(IF ok THEN [job EXCEPT !.removed = @ \cup {job.i}] ELSE job)

\* await fs.remove(path) of the try block settles: a failure goes to the catch
RemoveSettle(ok) ==
  /\ job.at = "remove"
  /\ job' = IF ok THEN JobAdvance([job EXCEPT !.removed = @ \cup {job.i}])
            ELSE JobFail(job)

\* fs.remove(path).catch(console.error) of the catch block settles; the
\* upload handler then answers with the error, the batch loop goes on
CleanupSettle(ok) ==
  /\ job.at = "cleanup"
  /\ LET j == IF ok THEN [job EXCEPT !.removed = @ \cup {job.i}] ELSE job
     IN  job' = IF job.kind = "upload"
                THEN [j EXCEPT !.at = "done", !.response = "failed"]
                ELSE JobAdvance(j)

FilesRest ==
  UNCHANGED <<vectorStore, isInitialized, runVars,
              lastSettled, via, world, prev, runNo,
              runs, stream, oracleArgs, svc, ingest>>

NextFiles ==
  \/ (\E files \in ListsUpTo(RouteFiles, 1) : RouteUpload(files)) /\ FilesRest
  \/ (\E files \in ListsUpTo(RouteFiles, MaxFiles) : RouteBatch(files)) /\ FilesRest
  \/ (\E f \in ScriptFiles : ScriptSingle(f)) /\ FilesRest
  \/ (\E listing \in ListsUpTo(ScriptFiles, MaxFiles) : ScriptDirectory(listing))
       /\ FilesRest
  \/ ValidateSettle /\ FilesRest
  \/ (\E readable \in BOOLEAN : ProcessSettle(readable)) /\ FilesRest
  \/ (\E ok \in BOOLEAN : StoreSettle(ok)) /\ FilesRest
  \/ (\E ok \in BOOLEAN : RemoveSettle(ok)) /\ FilesRest
  \/ (\E ok \in BOOLEAN : CleanupSettle(ok)) /\ FilesRest

SpecFiles == Init /\ [][NextFiles]_vars

----------------------------------------------------------------------------
(* Two successive requests with the same question against deterministic    *)
(* external services: world fixes the reply of the expansion model, the    *)
(* outcome of the connection, the result of the oracle for each query and  *)
(* the reply of the answer model.                                          *)

\* number of successive requests
MaxRuns == 2

\* the question of both requests
DetQuestion == [t |-> "string", v |-> "q0"]

\* replies of the deterministic expansion model: [], ["a1"], prose, a failure
DetExpansions ==
  { Resolved(ArrayText(n)) : n \in 0..1 } \cup
  { Resolved(<< Tok("word", "Sure") >>), Rejected("429 rate limit") }

\* the queries the oracle can be asked
DetQueries == {DetQuestion.v, AltNames[1]}

\* what the deterministic oracle does with one query
DetSearches ==
  { ResolvedSearch(ds) : ds \in MultiQueryResults } \cup
  { RejectedSearch(SearchFailedError(<<m>>)) : m \in OracleErrors }

DetAnswers ==
  { AnswerReplied(t) : t \in AnswerTexts } \cup { AnswerFailed("ECONNRESET") }

Worlds ==
  [chosen : {TRUE}, expansion : DetExpansions, connect : {"store", "null"},
   oracle : [DetQueries -> DetSearches], answer : DetAnswers]

InitDet == InitRun /\ world \in Worlds /\ runs = <<>>

NextDet ==
  \/ /\ runNo < MaxRuns
     /\ Ask(DetQuestion)
     /\ prev' = outcome
     /\ runNo' = runNo + 1
     /\ UNCHANGED <<world, auxButDet>>
  \/ ExpansionSettle(world.expansion) /\ UNCHANGED aux
  \/ ConnectSettle(world.connect) /\ UNCHANGED aux
  \/ (\E i \in 1..Len(searches) :
        SearchSettle(i, world.oracle[allQuestions[i]])) /\ UNCHANGED aux
  \/ /\ world.answer.settled = "resolved"
     /\ AnswerResolveWith(world.answer.text)
     /\ UNCHANGED aux
  \/ /\ world.answer.settled = "rejected"
     /\ AnswerRejectWith(world.answer.message)
     /\ UNCHANGED aux

SpecDet == InitDet /\ [][NextDet]_vars

----------------------------------------------------------------------------
(* Two requests served concurrently by the module-level singleton          *)
(* astraDBQueryService: each run of queryAI has its own locals (runs[r]);  *)
(* vectorStore and isInitialized are fields of the one vector store        *)
(* service.  runs[r].w holds what the external services reply to the calls *)
(* of run r: the expansion model, the connection attempt of initialize if  *)
(* the run makes one, the oracle for each query, the answer model.         *)

\* the two requests
RunIds == {1, 2}
ConcQuestion == "q0"

\* the replies to one run
ConcWorlds ==
  [chosen : {TRUE},
   expansion : { Resolved(ArrayText(n)) : n \in 0..1 },
   connect : {"store", "null"},
   oracle : [DetQueries ->
               { ResolvedSearch(<<p>>) : p \in Passages } \cup
               { RejectedSearch(SearchFailedError(<<m>>)) : m \in OracleErrors }],
   answer : DetAnswers]

IdleRun ==
  [pc |-> "idle", w |-> NoWorld, allQuestions |-> <<>>, searches |-> <<>>,
   join |-> "none", relevantDocs |-> <<>>, outcome |-> NoOutcome]

InitConc ==
  /\ InitRun
  /\ world = NoWorld
  /\ runs = [r \in RunIds |-> IdleRun]

\* queryAI of one run from the return of similaritySearchMultiple to its
\* next await or return
ConcAfterRetrieval(run, r, elapsed) ==
  IF ~r.ok THEN
    [run EXCEPT !.pc = "done",
                !.outcome = [settled |-> "rejected",
                             message |-> QueryFailedError(r.message)]]
  ELSE IF IsEmptyCandidates(r.docs) THEN
    [run EXCEPT !.pc = "done", !.relevantDocs = r.docs,
                !.outcome = [settled |-> "resolved",
                             value |-> NoInfoResult(elapsed)]]
  ELSE [run EXCEPT !.pc = "generating", !.relevantDocs = r.docs]

\* similaritySearchMultiple of one run once initialize has returned: the
\* searches test the vectorStore field of the shared service
ConcFanOut(run, store, elapsed) ==
  LET ss == [i \in 1..Len(run.allQuestions) |-> StartSearch(store)]
      started == [run EXCEPT !.searches = ss, !.join = PromiseAll(ss)]
  IN  IF PromiseAll(ss) = "pending"
      THEN [started EXCEPT !.pc = "retrieving"]
      ELSE ConcAfterRetrieval(started, SearchMultipleSettle(ss), elapsed)

\* a request arrives while the other one may be under way
ConcAsk(r) ==
  /\ runs[r].pc = "idle"
  /\ \E w \in ConcWorlds :
       runs' = [runs EXCEPT ![r] = [IdleRun EXCEPT !.pc = "expanding", !.w = w]]
  /\ UNCHANGED <<vectorStore, isInitialized>>

\* the expansion call of run r settles; initialize returns at once when
\* some run has set isInitialized, and starts a connection attempt otherwise
ConcExpansionSettle(r) ==
  /\ runs[r].pc = "expanding"
  /\ LET run == runs[r]
         sp  == SpreadQuestions(ConcQuestion,
                                generateAlternativeQuestions(run.w.expansion))
         asked == [run EXCEPT !.allQuestions = sp.list]
     IN  IF ~sp.ok THEN
           runs' = [runs EXCEPT ![r] =
                      [run EXCEPT !.pc = "done",
                                  !.outcome = [settled |-> "rejected",
                                               message |-> QueryFailedError(<<sp.message>>)]]]
         ELSE IF isInitialized THEN
           \E elapsed \in 0..MaxElapsed :
             runs' = [runs EXCEPT ![r] = ConcFanOut(asked, vectorStore, elapsed)]
         ELSE runs' = [runs EXCEPT ![r] = [asked EXCEPT !.pc = "connecting"]]
  /\ UNCHANGED <<vectorStore, isInitialized>>

\* the connection attempt of run r settles: initialize writes the fields of
\* the shared service, whatever another run has written there meanwhile
ConcConnectSettle(r) ==
  /\ runs[r].pc = "connecting"
  /\ vectorStore' = runs[r].w.connect
  /\ isInitialized' = TRUE
  /\ \E elapsed \in 0..MaxElapsed :
       runs' = [runs EXCEPT ![r] = ConcFanOut(runs[r], runs[r].w.connect, elapsed)]

\* the oracle call of search i of run r settles
ConcSearchSettle(r, i) ==
  /\ i \in 1..Len(runs[r].searches)
  /\ runs[r].searches[i].status = "pending"
  /\ LET run == runs[r]
         ss  == [run.searches EXCEPT ![i] = run.w.oracle[run.allQuestions[i]]]
         settled == [run EXCEPT !.searches = ss]
     IN  IF run.join = "pending" /\ PromiseAll(ss) # "pending" THEN
           \E elapsed \in 0..MaxElapsed :
             runs' = [runs EXCEPT ![r] =
                        ConcAfterRetrieval([settled EXCEPT !.join = PromiseAll(ss)],
                                           SearchMultipleSettle(ss), elapsed)]
         ELSE runs' = [runs EXCEPT ![r] = settled]
  /\ UNCHANGED <<vectorStore, isInitialized>>

\* chain.invoke of run r settles
ConcAnswerSettle(r) ==
  /\ runs[r].pc = "generating"
  /\ LET run == runs[r]
     IN  IF run.w.answer.settled = "resolved" THEN
           \E elapsed \in 0..MaxElapsed :
             runs' = [runs EXCEPT ![r] =
               [run EXCEPT !.pc = "done",
                           !.outcome = [settled |-> "resolved",
                                        value |-> AnswerResult(ConcQuestion,
                                                    run.w.answer.text, elapsed,
                                                    run.relevantDocs)]]]
         ELSE
           runs' = [runs EXCEPT ![r] =
             [run EXCEPT !.pc = "done",
                         !.outcome = [settled |-> "rejected",
                                      message |-> QueryFailedError(<<run.w.answer.message>>)]]]
  /\ UNCHANGED <<vectorStore, isInitialized>>

NextConc ==
  \/ (\E r \in RunIds : ConcAsk(r)) /\ UNCHANGED <<runVars, auxButRuns>>
  \/ (\E r \in RunIds : ConcExpansionSettle(r))
       /\ UNCHANGED <<runVars, auxButRuns>>
  \/ (\E r \in RunIds : ConcConnectSettle(r))
       /\ UNCHANGED <<runVars, auxButRuns>>
  \/ (\E r \in RunIds : \E i \in 1..Len(runs[r].searches) :
        ConcSearchSettle(r, i)) /\ UNCHANGED <<runVars, auxButRuns>>
  \/ (\E r \in RunIds : ConcAnswerSettle(r))
       /\ UNCHANGED <<runVars, auxButRuns>>

SpecConc == InitConc /\ [][NextConc]_vars

----------------------------------------------------------------------------
(* The streaming query POST /api/query/ask-stream.  README.md names the     *)
(* endpoint and its four event types; its handler is not among the source  *)
(* files, so the steps below follow the design description: connected      *)
(* first, the pipeline up to the context, the fragments of the answer as    *)
(* content events, then complete; any failure ends the stream with one     *)
(* error event; a client disconnect stops all writes.                      *)

\* fragments of one answer
MaxFragments == 4
Fragments == {"f1", "f2"}

Event(type, text, docs) == [type |-> type, text |-> text, docs |-> docs]

\* write one event to the response
Emit(e, to) == stream' = [stream EXCEPT !.events = Append(@, e), !.pc = to]

\* the request arrives: the connected event
StreamAsk ==
  /\ stream.pc \in {"idle", "closed", "disconnected"}
  /\ stream' = [pc |-> "pipeline", failure |-> "",
                events |-> <<Event("connected", "", 0)>>]

\* expansion, retrieval or assembly fails with message m
StreamPipelineFail(m) ==
  /\ stream.pc = "pipeline"
  /\ Emit(Event("error", m, 0), "closed")

\* the candidates are there: none ends the stream with complete, some start
\* the streaming answer call
StreamRetrieved(d) ==
  /\ stream.pc = "pipeline"
  /\ IF d = 0 THEN Emit(Event("complete", "", 0), "closed")
     ELSE stream' = [stream EXCEPT !.pc = "generating"]

\* the model delivers fragment f
StreamFragment(f) ==
  /\ stream.pc = "generating"
  /\ Len(stream.events) - 1 < MaxFragments
  /\ Emit(Event("content", f, 0), "generating")

\* the answer call returns
StreamComplete(d) ==
  /\ stream.pc = "generating"
  /\ Emit(Event("complete", "", d), "closed")

\* an answer call that fails writes error and then complete
StreamGenerationFail_ThenComplete(m) ==
  /\ stream.pc = "generating"
  /\ stream' = [stream EXCEPT
                  !.events = @ \o <<Event("error", m, 0), Event("complete", "", 0)>>,
                  !.pc = "closed", !.failure = m]

\* the answer call fails with message m, possibly after some fragments
StreamGenerationFail(m) ==
  /\ stream.pc = "generating"
  /\ stream' = [stream EXCEPT !.events = Append(@, Event("error", m, 0)),
                              !.pc = "closed", !.failure = m]

\* the client goes away: nothing more is written
StreamDisconnect ==
  /\ stream.pc \in {"pipeline", "generating"}
  /\ stream' = [stream EXCEPT !.pc = "disconnected"]

StreamRest == UNCHANGED <<vectorStore, isInitialized, runVars, auxButStream>>

NextStream ==
  \/ StreamAsk /\ StreamRest
  \/ (\E m \in ModelErrors \cup OracleErrors : StreamPipelineFail(m)) /\ StreamRest
  \/ (\E d \in 0..MaxRetrieved : StreamRetrieved(d)) /\ StreamRest
  \/ (\E f \in Fragments : StreamFragment(f)) /\ StreamRest
  \/ (\E d \in 1..MaxRetrieved : StreamComplete(d)) /\ StreamRest
  \/ (\E m \in ModelErrors : StreamGenerationFail(m)) /\ StreamRest
  \/ StreamDisconnect /\ StreamRest

SpecStream == Init /\ [][NextStream]_vars

\* what a run with the replies w settles with when it is the only run of a
\* service that nothing has initialised: queryAI end to end
AloneOutcome(w, elapsed) ==
  LET sp == SpreadQuestions(ConcQuestion, generateAlternativeQuestions(w.expansion))
      ss == [i \in 1..Len(sp.list) |->
               IF StartSearch(w.connect).status = "pending"
               THEN w.oracle[sp.list[i]]
               ELSE StartSearch(w.connect)]
      r  == SearchMultipleSettle(ss)
  IN  IF ~sp.ok THEN
        [settled |-> "rejected", message |-> QueryFailedError(<<sp.message>>)]
      ELSE IF ~r.ok THEN
        [settled |-> "rejected", message |-> QueryFailedError(r.message)]
      ELSE IF IsEmptyCandidates(r.docs) THEN
        [settled |-> "resolved", value |-> NoInfoResult(elapsed)]
      ELSE IF w.answer.settled = "resolved" THEN
        [settled |-> "resolved",
         value |-> AnswerResult(ConcQuestion, w.answer.text, elapsed, r.docs)]
      ELSE [settled |-> "rejected",
            message |-> QueryFailedError(<<w.answer.message>>)]

TypeOK ==
  /\ vectorStore \in {"null", "store"}
  /\ isInitialized \in BOOLEAN
  /\ pc \in {"idle", "expanding", "connecting", "retrieving", "generating", "done"}
  /\ join \in {"none", "pending", "resolved", "rejected"}
  /\ Len(responses) <= 1

----------------------------------------------------------------------------
(* Properties *)

Range(seq) == { seq[i] : i \in 1..Len(seq) }

\* the run has returned a result to its caller
Returned == pc = "done" /\ outcome.settled = "resolved"

\* the question set is the original question and at most count paraphrases
\* (the expansion reply was an array of at most count strings)
ExpectedQuestions(qs) ==
  /\ Len(qs) >= 1
  /\ Len(qs) <= 1 + ALTERNATIVE_QUESTION_COUNT
  /\ qs[1] = question.v
  /\ \A i \in 2..Len(qs) : qs[i] \in Range(AltNames)

\* C1: when similaritySearchMultiple returns after at least one search has
\* failed and at least one has succeeded, the list it returns contains every
\* passage the successful searches returned.
C1_PartialFailureKeepsResults ==
  [][ ( /\ ExpectedQuestions(allQuestions)
        /\ join = "pending"
        /\ join' # "pending"
        /\ \E i \in 1..Len(searches') : searches'[i].status = "rejected"
        /\ \E i \in 1..Len(searches') : searches'[i].status = "resolved" )
      => \A i \in 1..Len(searches') :
           searches'[i].status = "resolved"
             => Range(searches'[i].docs) \subseteq Range(relevantDocs') ]_vars

\* the passages the per-question searches returned
RetrievedPassages ==
  UNION { Range(searches[i].docs) : i \in 1..Len(searches) }

\* C2: a passage returned for two or more questions counts once:
\* documentsRetrieved is the number of distinct passages retrieved and no two
\* entries of sources are built from the same passage.
C2_CandidatesDeduplicated ==
  (Returned /\ join = "resolved" /\ ExpectedQuestions(allQuestions)) =>
    /\ outcome.value.documentsRetrieved = Cardinality(RetrievedPassages)
    /\ \A i, j \in 1..Len(outcome.value.sources) :
         i # j => outcome.value.sources[i] # outcome.value.sources[j]

\* C3: in every returned result documentsRetrieved is 0 exactly when the
\* candidate list is empty, and then the answer is the fixed message,
\* sources is empty and chain.invoke was never called.
C3_EmptyCandidatesShortCircuit ==
  Returned =>
    /\ outcome.value.documentsRetrieved = 0 <=> relevantDocs = <<>>
    /\ relevantDocs = <<>> =>
         /\ outcome.value.answer = NO_INFO_ANSWER
         /\ outcome.value.sources = <<>>
         /\ calls.answer = 0
         /\ chainArgs = <<>>

C3_Witness ==
  /\ Returned
  /\ join = "resolved"
  /\ Len(searches) >= 2
  /\ relevantDocs = <<>>
  /\ outcome.value.documentsRetrieved = 0

\* the expansion reply cannot be used as an array of strings
Unusable(reply) ==
  \/ reply.settled = "rejected"
  \/ ~JSONParse(reply.text).ok
  \/ JSONParse(reply.text).value.kind # "array"

\* C4: when the expansion call rejects or its output is not valid JSON or
\* not an array, queryAI does not fail and retrieves with exactly
\* [original question].
C4_ExpansionNeverFailsQuery ==
  [][ \A reply \in ExpansionReplies :
        (Unusable(reply) /\ ExpansionSettle(reply))
          => /\ outcome'.settled # "rejected"
             /\ allQuestions' = <<question.v>> ]_vars

\* C5: one run retrieves with at most 1 + count questions, the first of
\* which is the original question.
C5_AtMostCountParaphrases ==
  /\ Len(allQuestions) <= 1 + ALTERNATIVE_QUESTION_COUNT
  /\ Len(searches) <= 1 + ALTERNATIVE_QUESTION_COUNT
  /\ allQuestions # <<>> => allQuestions[1] = question.v

\* C6: a run that searched an index that was never populated (vectorStore
\* null after initialize) does not end with the no-relevant-information
\* answer, which is the outcome of a populated index without matches.
C6_EmptyIndexDistinct ==
  ( /\ pc = "done"
    /\ isInitialized
    /\ vectorStore = "null"
    /\ ExpectedQuestions(allQuestions)
    /\ Len(searches) = Len(allQuestions) )
    => ~(outcome.settled = "resolved"
         /\ outcome.value.answer = NO_INFO_ANSWER)

\* C7: when chain.invoke has rejected, queryAI has rejected with an error
\* whose message carries the failure's message, and the client has received
\* exactly one response, with status 500 and that message.
C7_GenerationFailureIs500 ==
  answerReply.settled = "rejected" =>
    /\ relevantDocs # <<>>
    /\ pc = "done"
    /\ outcome.settled = "rejected"
    /\ outcome.message = <<"Query failed: ", answerReply.message>>
    /\ Len(responses) = 1
    /\ responses[1].status = 500
    /\ responses[1].body.message = outcome.message

C7_Witness ==
  /\ answerReply = AnswerFailed("ECONNRESET")
  /\ calls.answer = 1
  /\ Len(relevantDocs) >= 2
  /\ responses = <<[status |-> 500,
                    body |-> [error |-> "Query processing failed",
                              message |-> <<"Query failed: ", "ECONNRESET">>]]>>

AllSearchesFailed ==
  /\ Len(searches) > 0
  /\ \A i \in 1..Len(searches) : searches[i].status = "rejected"

\* C8: when every per-question search has failed, queryAI has resolved with
\* the fixed no-information answer, empty sources and documentsRetrieved 0,
\* and chain.invoke was never called.
C8_TotalRetrievalFailureShortCircuits ==
  AllSearchesFailed =>
    /\ Returned
    /\ outcome.value.answer = NO_INFO_ANSWER
    /\ outcome.value.sources = <<>>
    /\ outcome.value.documentsRetrieved = 0
    /\ calls.answer = 0
    /\ responses[1].status = 200

C8_Witness ==
  /\ AllSearchesFailed
  /\ Len(searches) >= 2
  /\ \A i \in 1..Len(searches) : calls.oracle[i] = 1
  /\ Returned

\* the body's question is missing, empty or not a string
BadQuestion == question.t # "string" \/ question.v = ""

\* C9: a request whose question is missing, empty or not a string is
\* answered 400 and queryAI is not invoked: no expansion, oracle or answer
\* call is made for it.
C9_InvalidQuestionIs400 ==
  (pc # "idle" /\ BadQuestion) =>
    /\ pc = "done"
    /\ Len(responses) = 1
    /\ responses[1].status = 400
    /\ calls.queryAI = 0
    /\ calls.expansion = 0
    /\ calls.oracle = <<>>
    /\ calls.answer = 0
    /\ searches = <<>>
    /\ chainArgs = <<>>

C9_Witness ==
  /\ pc = "done"
  /\ question = [t |-> "string", v |-> ""]
  /\ responses = <<[status |-> 400, body |-> InvalidQuestionBody]>>

\* position of a state of the run in the pipeline order
Rank(p) ==
  CASE p = "idle"       -> 0
    [] p = "expanding"  -> 1
    [] p = "connecting" -> 2
    [] p = "retrieving" -> 3
    [] p = "generating" -> 4
    [] p = "done"       -> 5

\* C10: the stages run in the order expansion, retrieval, assembly and
\* generation: while the expansion call is unsettled no search exists, the
\* answer call is made only once every search has returned, no stage is
\* entered twice and each service stage is called at most once.
C10_StagesInOrder ==
  [][ /\ pc' # pc => (pc = "done" \/ Rank(pc') > Rank(pc))
      /\ pc' = "expanding" => (searches' = <<>> /\ calls'.oracle = <<>>
                               /\ calls'.answer = 0)
      /\ pc' = "connecting" => (searches' = <<>> /\ calls'.answer = 0)
      /\ calls'.answer > 0 =>
           /\ calls'.expansion = 1
           /\ join' = "resolved"
           /\ \A i \in 1..Len(searches') : searches'[i].status = "resolved"
           /\ relevantDocs' = Flat([i \in 1..Len(searches') |-> searches'[i].docs])
      /\ calls'.expansion <= 1
      /\ calls'.answer <= 1 ]_vars

C10_Witness ==
  /\ Returned
  /\ calls.expansion = 1
  /\ calls.answer = 1
  /\ Len(searches) >= 2
  /\ outcome.value.documentsRetrieved >= 2


\* C11: the fan-out is joined: once similaritySearchMultiple has returned
\* (its Promise.all has settled), and so whenever queryAI has returned, no
\* similaritySearch of the run is still in flight.
C11_FanOutJoined ==
  (ExpectedQuestions(allQuestions) /\ join \in {"resolved", "rejected"})
    => \A i \in 1..Len(searches) : searches[i].status # "pending"


\* number of passages returned by the searches at positions before i
RECURSIVE DocsBefore(_, _)
DocsBefore(ss, i) ==
  IF i <= 1 THEN 0 ELSE DocsBefore(ss, i - 1) + Len(ss[i - 1].docs)

\* C12: when every search has succeeded, the candidate list holds the
\* passages by position of their question in the question set first and by
\* the oracle's rank within one question second, whatever the order in which
\* the searches completed.
C12_CandidateOrder ==
  join = "resolved" =>
    /\ Len(relevantDocs) = DocsBefore(searches, Len(searches) + 1)
    /\ \A i \in 1..Len(searches) : \A r \in 1..Len(searches[i].docs) :
         relevantDocs[DocsBefore(searches, i) + r] = searches[i].docs[r]

\* the search of the original question completed last, after the search of a
\* paraphrase, and its passage is still the first candidate
C12_Witness ==
  /\ join = "resolved"
  /\ Len(searches) >= 2
  /\ lastSettled = 1
  /\ Len(searches[1].docs) = 1
  /\ Len(relevantDocs) = 2
  /\ relevantDocs[1] = searches[1].docs[1]
  /\ relevantDocs[1] # relevantDocs[2]


\* the source summary the passage doc is to have: its content unchanged when
\* that has at most 200 characters, the first 200 characters and "..." when
\* it is longer
ExpectedSource(doc) ==
  [content |-> IF ContentLength(doc.pageContent) <= SOURCE_PREVIEW_LENGTH
               THEN <<Whole(doc.pageContent)>>
               ELSE <<Piece(doc.pageContent, SOURCE_PREVIEW_LENGTH), Ellipsis>>,
   metadata |-> doc.metadata]

\* C15: every source summary of a returned result has the passage content
\* unchanged when that has at most 200 characters, its first 200 characters
\* followed by "..." only when it is longer, and the passage's full metadata.
C15_SourceSummary ==
  (Returned /\ ExpectedQuestions(allQuestions) /\ Len(relevantDocs) > 0) =>
    /\ Len(outcome.value.sources) = Len(relevantDocs)
    /\ \A i \in 1..Len(relevantDocs) :
         outcome.value.sources[i] = ExpectedSource(relevantDocs[i])


\* the fields of an AnswerResult
AnswerResultFields ==
  {"question", "answer", "sources", "processingTime", "documentsRetrieved"}

\* C16: every result queryAI returns, on the normal path and on the
\* empty-candidate path alike, has the fields of an AnswerResult and carries
\* the caller's question.
C16_ResultShape ==
  (Returned /\ ExpectedQuestions(allQuestions)) =>
    /\ DOMAIN outcome.value = AnswerResultFields
    /\ outcome.value.question = question.v


\* C18: a run of queryAI never retries: from its start on, whatever fails,
\* the expansion model has been called exactly once, the retrieval oracle at
\* most once for each question of the question set, and the answer model at
\* most once.
C18_NoRetries ==
  calls.queryAI = 1 =>
    /\ calls.expansion = 1
    /\ Len(calls.oracle) <= Len(allQuestions)
    /\ \A i \in 1..Len(calls.oracle) : calls.oracle[i] <= 1
    /\ calls.answer <= 1
    /\ Len(chainArgs) = calls.answer

\* a run whose answer call failed has finished with that single call, one
\* expansion call and one oracle call per question
C18_Witness ==
  /\ pc = "done"
  /\ outcome.settled = "rejected"
  /\ answerReply.settled = "rejected"
  /\ calls.expansion = 1
  /\ calls.answer = 1
  /\ Len(allQuestions) >= 2
  /\ \A i \in 1..Len(allQuestions) : calls.oracle[i] = 1


\* C20: on every run with a non-empty candidate list the answer model is
\* called with the contents of all candidates, in candidate order, joined by
\* "\n\n", and with the caller's original question; the answer of the result
\* is the output of that call unchanged.
C20_AnswerCall ==
  (Len(relevantDocs) > 0 /\ pc \in {"generating", "done"}) =>
    /\ Len(chainArgs) = 1
    /\ LET a == chainArgs[1]
           n == Len(relevantDocs)
       IN  /\ Len(a.context) = 2 * n - 1
           /\ \A k \in 1..(2 * n - 1) :
                a.context[k] = IF k % 2 = 1
                               THEN relevantDocs[(k + 1) \div 2].pageContent
                               ELSE "\n\n"
           /\ a.question = question.v
           /\ a.question = allQuestions[1]
    /\ Returned => outcome.value.answer = answerReply.text

\* a run over paraphrases has answered from two different passages
C20_Witness ==
  /\ Returned
  /\ Len(allQuestions) >= 2
  /\ Len(relevantDocs) = 2
  /\ relevantDocs[1] # relevantDocs[2]
  /\ outcome.value.answer = "the answer"


\* C19: queryAI called directly with an empty or non-string question fails
\* with a validation error without calling the expansion model, the
\* retrieval oracle or the answer model.
C19_QueryAIValidates ==
  (via = "direct" /\ ~ValidQuestion(question)) =>
    /\ calls.expansion = 0
    /\ \A i \in 1..Len(calls.oracle) : calls.oracle[i] = 0
    /\ calls.answer = 0
    /\ pc = "done" => outcome.settled = "rejected"


\* C17: with deterministic services, a request that follows another one
\* with the same question returns the answer and the sources the first one
\* returned, the first being the one that initialises the vector store.
C17_Idempotent ==
  (runNo >= 2 /\ Returned /\ prev.settled = "resolved") =>
    /\ outcome.value.answer = prev.value.answer
    /\ outcome.value.sources = prev.value.sources

\* both requests have answered from the same passage, found by a store the
\* first request connected to
C17_Witness ==
  /\ runNo = 2
  /\ Returned
  /\ prev.settled = "resolved"
  /\ vectorStore = "store"
  /\ Len(outcome.value.sources) >= 1
  /\ outcome.value.answer = "the answer"
  /\ prev.value.answer = "the answer"


\* C13: two runs of queryAI that execute concurrently on the one service
\* instance do not interfere: each run settles as it would settle alone
\* with the same replies of the external services (the elapsed time apart).
C13_RunsDoNotInterfere ==
  \A r \in DOMAIN runs :
    runs[r].pc = "done" =>
      \E elapsed \in 0..MaxElapsed :
        runs[r].outcome = AloneOutcome(runs[r].w, elapsed)


\* C14: the events of a streaming query come in strict order: one connected
\* event first, then content events only, then at most one terminal event
\* (complete or error), which is the last event written; a stream that has
\* ended has exactly one terminal event, and after a generation failure that
\* is the error event carrying the failure.
C14_StreamEventOrder ==
  LET ev == stream.events
      n  == Len(ev)
      Terminal(e) == e.type \in {"complete", "error"}
  IN  /\ stream.pc # "idle" => (n >= 1 /\ ev[1].type = "connected")
      /\ \A i \in 2..n : ev[i].type # "connected"
      /\ \A i \in 1..(n - 1) : ~Terminal(ev[i])
      /\ \A i \in 2..(n - 1) : ev[i].type = "content"
      /\ stream.pc = "closed" => (n >= 2 /\ Terminal(ev[n]))
      /\ stream.pc \in {"pipeline", "generating", "disconnected"} =>
           ~Terminal(ev[n])
      /\ (stream.pc = "closed" /\ stream.failure # "") =>
           (ev[n].type = "error" /\ ev[n].text = stream.failure)

\* the answer call has failed after two fragments were delivered
C14_Witness ==
  /\ stream.pc = "closed"
  /\ stream.failure # ""
  /\ Len(stream.events) = 4
  /\ stream.events[2].type = "content"
  /\ stream.events[3].type = "content"


C22_StoreStaysSet ==
  /\ svc.stored => vectorStore # "null"
  /\ (svc.last.op = "similaritySearch" /\ svc.last.afterStore) =>
       svc.last.result # NO_DOCUMENTS_MESSAGE


\* C23: the connection attempt of a service instance is made at most once,
\* also when two requests arrive on a fresh instance: no two runs are ever
\* both waiting for a fromExistingIndex call of their own.
C23_SingleConnectionAttempt ==
  Cardinality({ r \in DOMAIN runs : runs[r].pc = "connecting" }) <= 1


\* C24: when the query handle was initialised while the collection could not
\* be opened and documents were stored through the ingestion handle
\* afterwards, a query that arrives after that retrieves passages (the
\* oracle has matches) instead of returning the no-information answer.
C24_IngestedBecomesVisible ==
  (Returned /\ ingest.emptyBefore /\ ingest.before) =>
    /\ outcome.value.documentsRetrieved > 0
    /\ outcome.value.answer # NO_INFO_ANSWER


C26_BatchOneListPerFile ==
  (job.kind = "batch" /\ job.at = "done" /\ job.response = "success") =>
    LET inSuccessful == { job.successful[k] : k \in 1..Len(job.successful) }
        inFailed == { job.failed[k] : k \in 1..Len(job.failed) }
        attempted == { job.removes[k] : k \in 1..Len(job.removes) }
    IN  /\ Len(job.successful) + Len(job.failed) = Len(job.files)
        /\ inSuccessful \cap inFailed = {}
        /\ inSuccessful \cup inFailed = 1..Len(job.files)
        /\ attempted = 1..Len(job.files)


\* C27: when POST /upload has completed for a received file, fs.remove was
\* called for the file, and if the response is the success response the
\* store had succeeded and a removal had succeeded before it.
C27_UploadCleanup ==
  (job.kind = "upload" /\ job.at = "done" /\ Len(job.files) = 1) =>
    /\ Len(job.removes) >= 1
    /\ job.response = "success" =>
         /\ job.successful = <<1>>
         /\ job.failed = <<>>
         /\ 1 \in job.removed

\* an upload answered with the success response
C27_Witness ==
  /\ job.kind = "upload"
  /\ job.at = "done"
  /\ job.response = "success"
  /\ job.removes = <<1>>


\* C28: in the ingestion script fromDocuments is called only for a file that
\* exists, has at most 10MB, has a supported type and has readable text, and
\* when processDirectory returns its two lists they hold one entry for each
\* supported file, each file in exactly one of them.
C28_StoreAfterValidation ==
  (job.kind \in {"single", "directory"}) =>
    /\ \A k \in 1..Len(job.writes) :
         LET f == job.files[job.writes[k]]
         IN  /\ f.exists
             /\ f.size <= 10485760
             /\ f.ext \in {".pdf", ".docx", ".txt", ".md"}
             /\ f.text # ""
    /\ (job.kind = "directory" /\ job.at = "done" /\ job.response = "success") =>
         /\ Len(job.successful) + Len(job.failed) = Len(job.files)
         /\ { job.successful[k] : k \in 1..Len(job.successful) }
              \cap { job.failed[k] : k \in 1..Len(job.failed) } = {}

\* a directory whose first file failed validation and whose second file
\* was stored
C28_Witness ==
  /\ job.kind = "directory"
  /\ job.at = "done"
  /\ job.failed = <<1>>
  /\ job.successful = <<2>>
  /\ job.writes = <<2>>

====
